---------------------------- MODULE Spec2Model ----------------------------
(***************************************************************************)
(* SwmmLayerBuilderAlgorithm (src/swmm_layer_builder.py): one run of       *)
(* processAlgorithm over an input layer, with the host's cancellation flag *)
(* raised asynchronously, and the default catalogue _defaults_for_section  *)
(* as a pure function of the section and the schema registry.              *)
(***************************************************************************)
EXTENDS Integers, Sequences, FiniteSets, TLC

VARIABLES
    section_key,          \* self.section_key
    def_qgis_fields_dict, \* the schema registry: section -> <<name, type>> list
    field_params,         \* self.field_params
    input_layer,          \* what parameterAsVectorLayer returns
    parameters,           \* param_id -> what parameterAsString returns
    field_map,            \* target field -> source field name
    target_fields,        \* the QgsFields of the output
    sink,                 \* the features appended to the sink so far
    defaults,             \* _defaults_for_section(self.section_key)
    total,                \* input_layer.featureCount()
    idx,                  \* enumerate index of the loop
    feature,              \* the feature the loop holds
    canceled,             \* feedback's cancellation flag
    progress,             \* last value given to feedback.setProgress
    result,               \* what processAlgorithm returned
    error,                \* the exception that ended the run
    pc,                   \* position of the run
    fetched,              \* number of features taken from input_layer.getFeatures()
    cancelAt,             \* number of features in the sink when the flag was raised
    cancelPc,             \* position of the run when the flag was raised
    reads                 \* number of times feedback.isCanceled() was read

vars == << section_key, def_qgis_fields_dict, field_params, input_layer,
           parameters, field_map, target_fields, sink, defaults, total, idx,
           feature, canceled, progress, result, error, pc, fetched, cancelAt,
           cancelPc, reads >>

----------------------------------------------------------------------------
(* Python values: None, str and numbers (numbers kept as their literal).   *)

None == [k |-> "none", v |-> ""]
S(x) == [k |-> "str", v |-> x]
N(x) == [k |-> "num", v |-> x]

\* bool(v) for None and str: the truth test of `not param_val` and
\* `if field_name and ...`
Truthy(v) == v.k # "none" /\ ~(v.k = "str" /\ v.v = "")

(* Python dicts keep insertion order: a dict is a sequence of <<key, value>>. *)
Keys(d) == [i \in 1..Len(d) |-> d[i][1]]
\* the position of `key` in d, 0 when d does not have it
Find(d, key) ==
    LET hit == { i \in 1..Len(d) : d[i][1] = key }
    IN  IF hit = {} THEN 0 ELSE CHOOSE i \in hit : TRUE
HasKey(d, key) == Find(d, key) # 0
\* d.get(key): None when the key is missing
DictGet(d, key) ==
    LET at == Find(d, key)
    IN  IF at = 0 THEN None ELSE d[at][2]

----------------------------------------------------------------------------
(* _defaults_for_section: the literal tables.                               *)

\* lines 151-179: the literal default table of SUBCATCHMENTS
SubcatchmentsDefaults ==
    << <<"Name", S("")>>,
       <<"RainGage", S("*")>>,
       <<"Outlet", S("")>>,
       <<"Area", N("0")>>,
       <<"Imperv", N("0")>>,
       <<"Width", N("0")>>,
       <<"Slope", N("0.5")>>,
       <<"CurbLen", N("0")>>,
       <<"SnowPack", S("")>>,
       <<"N_Imperv", N("0.01")>>,
       <<"N_Perv", N("0.1")>>,
       <<"S_Imperv", N("1.8")>>,
       <<"S_Perv", N("3")>>,
       <<"PctZero", N("0")>>,
       <<"RouteTo", S("OUTLET")>>,
       <<"PctRouted", N("100")>>,
       <<"InfMethod", S("")>>,
       <<"SuctHead", None>>,
       <<"Conductiv", None>>,
       <<"InitDef", None>>,
       <<"MaxRate", None>>,
       <<"MinRate", None>>,
       <<"Decay", None>>,
       <<"DryTime", None>>,
       <<"MaxInf", None>>,
       <<"CurveNum", None>> >>

\* lines 180-188: the literal default table of JUNCTIONS
JunctionsDefaults ==
    << <<"Name", S("")>>,
       <<"Elevation", N("0")>>,
       <<"MaxDepth", N("0")>>,
       <<"InitDepth", N("0")>>,
       <<"SurDepth", N("0")>>,
       <<"Aponded", N("0")>> >>

\* lines 189-198: the literal default table of OUTFALLS
OutfallsDefaults ==
    << <<"Name", S("")>>,
       <<"Elevation", N("0")>>,
       <<"Type", S("FREE")>>,
       <<"FixedStage", None>>,
       <<"Curve_TS", S("")>>,
       <<"FlapGate", S("")>>,
       <<"RouteTo", S("")>> >>

\* lines 199-210: the literal default table of RAINGAGES
RaingagesDefaults ==
    << <<"Name", S("")>>,
       <<"Format", S("")>>,
       <<"Interval", S("")>>,
       <<"SCF", N("1.0")>>,
       <<"DataSource", S("")>>,
       <<"SeriesName", S("")>>,
       <<"FileName", S("")>>,
       <<"StationID", S("")>>,
       <<"RainUnits", S("")>> >>

\* lines 213-237: the literal default table of CONDUITS
ConduitsDefaults ==
    << <<"Name", S("")>>,
       <<"FromNode", S("")>>,
       <<"ToNode", S("")>>,
       <<"Length", N("0")>>,
       <<"Roughness", N("0.01")>>,
       <<"InOffset", N("0")>>,
       <<"OutOffset", N("0")>>,
       <<"InitFlow", N("0")>>,
       <<"MaxFlow", N("0")>>,
       <<"XsectShape", S("")>>,
       <<"Geom1", N("0")>>,
       <<"Geom2", N("0")>>,
       <<"Geom3", N("0")>>,
       <<"Geom4", N("0")>>,
       <<"Barrels", N("1")>>,
       <<"Culvert", S("")>>,
       <<"Shp_Trnsct", S("")>>,
       <<"Kentry", N("0")>>,
       <<"Kexit", N("0")>>,
       <<"Kavg", N("0")>>,
       <<"FlapGate", S("")>>,
       <<"Seepage", N("0")>> >>

\* lines 238-251: the literal default table of ORIFICES
OrificesDefaults ==
    << <<"Name", S("")>>,
       <<"FromNode", S("")>>,
       <<"ToNode", S("")>>,
       <<"Type", S("")>>,
       <<"InOffset", N("0")>>,
       <<"Qcoeff", N("0")>>,
       <<"FlapGate", S("")>>,
       <<"CloseTime", N("0")>>,
       <<"XsectShape", S("")>>,
       <<"Height", N("0")>>,
       <<"Width", N("0")>> >>

\* lines 252-261: the literal default table of PUMPS
PumpsDefaults ==
    << <<"Name", S("")>>,
       <<"FromNode", S("")>>,
       <<"ToNode", S("")>>,
       <<"PumpCurve", S("")>>,
       <<"Status", S("")>>,
       <<"Startup", N("0")>>,
       <<"Shutoff", N("0")>> >>

\* lines 262-280: the literal default table of WEIRS
WeirsDefaults ==
    << <<"Name", S("")>>,
       <<"FromNode", S("")>>,
       <<"ToNode", S("")>>,
       <<"Type", S("")>>,
       <<"CrestHeigh", N("0")>>,
       <<"Qcoeff", N("0")>>,
       <<"FlapGate", S("")>>,
       <<"EndContrac", N("0")>>,
       <<"EndCoeff", N("0")>>,
       <<"Surcharge", S("")>>,
       <<"RoadWidth", N("0")>>,
       <<"RoadSurf", S("")>>,
       <<"CoeffCurve", S("")>>,
       <<"Height", N("0")>>,
       <<"Length", N("0")>>,
       <<"SideSlope", N("0")>> >>
----------------------------------------------------------------------------
(* _field_definitions: the mapping slots per section.                       *)

\* lines 285-293: the mapping slots of JUNCTIONS (param id, label, target, required)
JunctionsParams ==
    << <<"NAME_FIELD", "Name field", "Name", TRUE>>,
       <<"ELEV_FIELD", "Elevation field", "Elevation", TRUE>>,
       <<"MAXDEPTH_FIELD", "MaxDepth field", "MaxDepth", TRUE>>,
       <<"INITDEPTH_FIELD", "InitDepth field", "InitDepth", FALSE>>,
       <<"SURDEPTH_FIELD", "SurDepth field", "SurDepth", FALSE>>,
       <<"APONDED_FIELD", "Aponded field", "Aponded", FALSE>> >>

\* lines 294-303: the mapping slots of OUTFALLS (param id, label, target, required)
OutfallsParams ==
    << <<"NAME_FIELD", "Name field", "Name", TRUE>>,
       <<"ELEV_FIELD", "Elevation field", "Elevation", TRUE>>,
       <<"TYPE_FIELD", "Type field", "Type", TRUE>>,
       <<"FIXED_FIELD", "FixedStage field", "FixedStage", FALSE>>,
       <<"CURVE_FIELD", "Curve_TS field", "Curve_TS", FALSE>>,
       <<"FLAP_FIELD", "FlapGate field", "FlapGate", FALSE>>,
       <<"ROUTETO_FIELD", "RouteTo field", "RouteTo", FALSE>> >>

\* lines 304-315: the mapping slots of RAINGAGES (param id, label, target, required)
RaingagesParams ==
    << <<"NAME_FIELD", "Name field", "Name", TRUE>>,
       <<"FORMAT_FIELD", "Format field", "Format", TRUE>>,
       <<"INTERVAL_FIELD", "Interval field", "Interval", TRUE>>,
       <<"SCF_FIELD", "SCF field", "SCF", FALSE>>,
       <<"DATASRC_FIELD", "DataSource field", "DataSource", FALSE>>,
       <<"SERIES_FIELD", "SeriesName field", "SeriesName", FALSE>>,
       <<"FILE_FIELD", "FileName field", "FileName", FALSE>>,
       <<"STATION_FIELD", "StationID field", "StationID", FALSE>>,
       <<"RAINUNITS_FIELD", "RainUnits field", "RainUnits", FALSE>> >>

\* lines 316-336: the mapping slots of STORAGE (param id, label, target, required)
StorageParams ==
    << <<"NAME_FIELD", "Name field", "Name", TRUE>>,
       <<"ELEV_FIELD", "Elevation field", "Elevation", TRUE>>,
       <<"MAXDEPTH_FIELD", "MaxDepth field", "MaxDepth", TRUE>>,
       <<"INITDEPTH_FIELD", "InitDepth field", "InitDepth", FALSE>>,
       <<"TYPE_FIELD", "Type field", "Type", FALSE>>,
       <<"CURVE_FIELD", "Curve field", "Curve", FALSE>>,
       <<"COEFF_FIELD", "Coeff field", "Coeff", FALSE>>,
       <<"EXP_FIELD", "Exponent field", "Exponent", FALSE>>,
       <<"CONST_FIELD", "Constant field", "Constant", FALSE>>,
       <<"MAJORAX_FIELD", "MajorAxis field", "MajorAxis", FALSE>>,
       <<"MINORAX_FIELD", "MinorAxis field", "MinorAxis", FALSE>>,
       <<"SIDESLOPE_FIELD", "SideSlope field", "SideSlope", FALSE>>,
       <<"SURFHEIGHT_FIELD", "SurfHeight field", "SurfHeight", FALSE>>,
       <<"SURDEPTH_FIELD", "SurDepth field", "SurDepth", FALSE>>,
       <<"FEVAP_FIELD", "Fevap field", "Fevap", FALSE>>,
       <<"PSI_FIELD", "Psi field", "Psi", FALSE>>,
       <<"KSAT_FIELD", "Ksat field", "Ksat", FALSE>>,
       <<"IMD_FIELD", "IMD field", "IMD", FALSE>> >>

\* lines 337-361: the mapping slots of CONDUITS (param id, label, target, required)
ConduitsParams ==
    << <<"NAME_FIELD", "Name field", "Name", TRUE>>,
       <<"FROM_FIELD", "FromNode field", "FromNode", TRUE>>,
       <<"TO_FIELD", "ToNode field", "ToNode", TRUE>>,
       <<"LENGTH_FIELD", "Length field", "Length", TRUE>>,
       <<"ROUGH_FIELD", "Roughness field", "Roughness", FALSE>>,
       <<"INOFF_FIELD", "InOffset field", "InOffset", FALSE>>,
       <<"OUTOFF_FIELD", "OutOffset field", "OutOffset", FALSE>>,
       <<"INITFLOW_FIELD", "InitFlow field", "InitFlow", FALSE>>,
       <<"MAXFLOW_FIELD", "MaxFlow field", "MaxFlow", FALSE>>,
       <<"XSECTSHAPE_FIELD", "XsectShape field", "XsectShape", FALSE>>,
       <<"GEOM1_FIELD", "Geom1 field", "Geom1", FALSE>>,
       <<"GEOM2_FIELD", "Geom2 field", "Geom2", FALSE>>,
       <<"GEOM3_FIELD", "Geom3 field", "Geom3", FALSE>>,
       <<"GEOM4_FIELD", "Geom4 field", "Geom4", FALSE>>,
       <<"BARRELS_FIELD", "Barrels field", "Barrels", FALSE>>,
       <<"CULVERT_FIELD", "Culvert field", "Culvert", FALSE>>,
       <<"SHPTRNS_FIELD", "Shp_Trnsct field", "Shp_Trnsct", FALSE>>,
       <<"KENTRY_FIELD", "Kentry field", "Kentry", FALSE>>,
       <<"KEXIT_FIELD", "Kexit field", "Kexit", FALSE>>,
       <<"KAVG_FIELD", "Kavg field", "Kavg", FALSE>>,
       <<"FLAP_FIELD", "FlapGate field", "FlapGate", FALSE>>,
       <<"SEEP_FIELD", "Seepage field", "Seepage", FALSE>> >>

\* lines 362-375: the mapping slots of ORIFICES (param id, label, target, required)
OrificesParams ==
    << <<"NAME_FIELD", "Name field", "Name", TRUE>>,
       <<"FROM_FIELD", "FromNode field", "FromNode", TRUE>>,
       <<"TO_FIELD", "ToNode field", "ToNode", TRUE>>,
       <<"TYPE_FIELD", "Type field", "Type", TRUE>>,
       <<"INOFF_FIELD", "InOffset field", "InOffset", FALSE>>,
       <<"QCOEFF_FIELD", "Qcoeff field", "Qcoeff", FALSE>>,
       <<"FLAP_FIELD", "FlapGate field", "FlapGate", FALSE>>,
       <<"CLOSETIME_FIELD", "CloseTime field", "CloseTime", FALSE>>,
       <<"XSECTSHAPE_FIELD", "XsectShape field", "XsectShape", FALSE>>,
       <<"HEIGHT_FIELD", "Height field", "Height", FALSE>>,
       <<"WIDTH_FIELD", "Width field", "Width", FALSE>> >>

\* lines 376-385: the mapping slots of PUMPS (param id, label, target, required)
PumpsParams ==
    << <<"NAME_FIELD", "Name field", "Name", TRUE>>,
       <<"FROM_FIELD", "FromNode field", "FromNode", TRUE>>,
       <<"TO_FIELD", "ToNode field", "ToNode", TRUE>>,
       <<"CURVE_FIELD", "PumpCurve field", "PumpCurve", TRUE>>,
       <<"STATUS_FIELD", "Status field", "Status", FALSE>>,
       <<"STARTUP_FIELD", "Startup field", "Startup", FALSE>>,
       <<"SHUTOFF_FIELD", "Shutoff field", "Shutoff", FALSE>> >>

\* lines 386-404: the mapping slots of WEIRS (param id, label, target, required)
WeirsParams ==
    << <<"NAME_FIELD", "Name field", "Name", TRUE>>,
       <<"FROM_FIELD", "FromNode field", "FromNode", TRUE>>,
       <<"TO_FIELD", "ToNode field", "ToNode", TRUE>>,
       <<"TYPE_FIELD", "Type field", "Type", TRUE>>,
       <<"CREST_FIELD", "CrestHeigh field", "CrestHeigh", FALSE>>,
       <<"QCOEFF_FIELD", "Qcoeff field", "Qcoeff", FALSE>>,
       <<"FLAP_FIELD", "FlapGate field", "FlapGate", FALSE>>,
       <<"ENDCONTR_FIELD", "EndContrac field", "EndContrac", FALSE>>,
       <<"ENDCOEFF_FIELD", "EndCoeff field", "EndCoeff", FALSE>>,
       <<"SURCH_FIELD", "Surcharge field", "Surcharge", FALSE>>,
       <<"ROADWIDTH_FIELD", "RoadWidth field", "RoadWidth", FALSE>>,
       <<"ROADSURF_FIELD", "RoadSurf field", "RoadSurf", FALSE>>,
       <<"COEFFCURVE_FIELD", "CoeffCurve field", "CoeffCurve", FALSE>>,
       <<"HEIGHT_FIELD", "Height field", "Height", FALSE>>,
       <<"LENGTH_FIELD", "Length field", "Length", FALSE>>,
       <<"SIDESLOPE_FIELD", "SideSlope field", "SideSlope", FALSE>> >>
_field_definitions(section) ==
    CASE section = "JUNCTIONS" -> JunctionsParams
      [] section = "OUTFALLS"  -> OutfallsParams
      [] section = "RAINGAGES" -> RaingagesParams
      [] section = "STORAGE"   -> StorageParams
      [] section = "CONDUITS"  -> ConduitsParams
      [] section = "ORIFICES"  -> OrificesParams
      [] section = "PUMPS"     -> PumpsParams
      [] section = "WEIRS"     -> WeirsParams
      [] OTHER                 -> << >>

----------------------------------------------------------------------------
(* The default catalogue.                                                   *)

\* StorageDefaults with every numeric type, Int included, given 0
StorageDefaultsNumeric ==
    LET reg == def_qgis_fields_dict["STORAGE"]
    IN  [i \in 1..Len(reg) |->
            <<reg[i][1], IF reg[i][2] \in {"Double", "Int"} THEN N("0") ELSE S("")>>]

\* line 212: the defaults of STORAGE are computed from the registry
StorageDefaults ==
    LET reg == def_qgis_fields_dict["STORAGE"]
    IN  [i \in 1..Len(reg) |->
            <<reg[i][1], IF reg[i][2] = "Double" THEN N("0") ELSE S("")>>]

\* line 281: any other section gets None for every registry key
FallbackDefaults(section) ==
    LET reg == def_qgis_fields_dict[section]
    IN  [i \in 1..Len(reg) |-> <<reg[i][1], None>>]

_defaults_for_section(section) ==
    CASE section = "SUBCATCHMENTS" -> SubcatchmentsDefaults
      [] section = "JUNCTIONS"     -> JunctionsDefaults
      [] section = "OUTFALLS"      -> OutfallsDefaults
      [] section = "RAINGAGES"     -> RaingagesDefaults
      [] section = "STORAGE"       -> StorageDefaults
      [] section = "CONDUITS"      -> ConduitsDefaults
      [] section = "ORIFICES"      -> OrificesDefaults
      [] section = "PUMPS"         -> PumpsDefaults
      [] section = "WEIRS"         -> WeirsDefaults
      [] OTHER                     -> FallbackDefaults(section)

----------------------------------------------------------------------------
(* The schema registry def_qgis_fields_dict (module g_s_defaults): for each *)
(* section an ordered mapping from target field name to type name.          *)

Types == {"Double", "String", "Int", "Bool", "Date", "Time"}

\* a registry entry with the keys of a literal default table, in its order
TableSchema(table) ==
    [i \in 1..Len(table) |->
        <<table[i][1], IF table[i][2].k = "str" THEN "String" ELSE "Double">>]

\* a registry entry with one slot target per field
SlotSchema(slots) ==
    [i \in 1..Len(slots) |->
        <<slots[i][3],
          IF slots[i][3] \in {"Name", "Type", "Curve"} THEN "String" ELSE "Double">>]

\* a section of the registry that has neither a default table nor slots
OutletsSchema ==
    << <<"Name", "String">>, <<"InOffset", "Double">>, <<"CurveName", "String">> >>

\* a target field the registry declares beyond the default table's keys
ExtraField == <<"Tag", "String">>

LiteralTables ==
    [SUBCATCHMENTS |-> SubcatchmentsDefaults, JUNCTIONS |-> JunctionsDefaults,
     OUTFALLS |-> OutfallsDefaults, RAINGAGES |-> RaingagesDefaults,
     CONDUITS |-> ConduitsDefaults, ORIFICES |-> OrificesDefaults,
     PUMPS |-> PumpsDefaults, WEIRS |-> WeirsDefaults]

\* the entry of a section: the keys of its default table, or those and one
\* more field when `extra`
RegistryEntries(section, extra) ==
    CASE section \in DOMAIN LiteralTables ->
            { TableSchema(LiteralTables[section]) } \cup
            ( IF extra
              THEN { Append(TableSchema(LiteralTables[section]), ExtraField) }
              ELSE {} )
      [] section = "STORAGE" -> { SlotSchema(StorageParams) }
      [] section = "OUTLETS" -> { OutletsSchema }
      [] OTHER -> {}

\* the registries a run of `section` may see: the section's entry, or no
\* entry when the registry does not know the section
Registries(section, extra) ==
    IF RegistryEntries(section, extra) = {}
    THEN { [s \in {} |-> << >>] }
    ELSE { [s \in {section} |-> e] : e \in RegistryEntries(section, extra) }

----------------------------------------------------------------------------
(* Bounded inputs of a run.                                                 *)

\* features per input layer, for runs over all mappings
MaxFeatures == 1
\* features per input layer, for runs that follow the loop
MaxLoopFeatures == 3
\* fields per registry entry, where the entry is drawn freely
MaxFields == 2

Sections ==
    {"SUBCATCHMENTS", "JUNCTIONS", "OUTFALLS", "RAINGAGES", "STORAGE", "CONDUITS",
     "ORIFICES", "PUMPS", "WEIRS", "OUTLETS", "BOGUS"}

\* field names of the input layer: none, a target name, its lower-case
\* variant, a foreign column
LayerFieldSets == { {}, {"Name"}, {"name"}, {"src_a"} }

\* attribute values of input features
Values == { None, S(""), N("0"), N("5.2") }

Geometries == { "geom_a" }

\* the layers of the runs that follow the loop: one auto-matched column
LoopFieldSets == { {"Name"} }
LoopValues == { None, N("5.2") }
LoopGeometries == { "geom_a", "geom_b" }

\* non-empty strings parameterAsString may return for a slot
Choices == { "src_a" }

NoLayer == [present |-> FALSE]

Features(names, values, geoms) ==
    { [geometry |-> g, attributes |-> a] : g \in geoms, a \in [names -> values] }

Layers(nameSets, values, geoms, maxN) ==
    UNION { { [present |-> TRUE, names |-> ns, features |-> fs] :
                fs \in UNION { [1..n -> Features(ns, values, geoms)] : n \in 0..maxN } } :
            ns \in nameSets }

ParamIds(slots) == { slots[i][1] : i \in 1..Len(slots) }

\* every slot left unset
AllUnset(slots) == [id \in ParamIds(slots) |-> ""]

\* what parameterAsString returns per slot: "" for every slot, or a name for
\* one slot and "" for the others
ParamChoices(slots) ==
    { AllUnset(slots) } \cup
    { [id \in ParamIds(slots) |-> IF id = chosen THEN c ELSE ""] :
        chosen \in ParamIds(slots), c \in Choices }

NoFeature == [geometry |-> "", attributes |-> << >>]
NoResult == "none"
NoError == "none"

\* the state of a run before its first step
Fresh(start) ==
    /\ field_params = _field_definitions(section_key)
    /\ field_map = << >>
    /\ target_fields = << >>
    /\ sink = << >>
    /\ defaults = << >>
    /\ total = 0
    /\ idx = 0
    /\ feature = NoFeature
    /\ canceled = FALSE
    /\ progress = 0
    /\ result = NoResult
    /\ error = NoError
    /\ pc = start
    /\ fetched = 0
    /\ cancelAt = -1
    /\ cancelPc = "none"
    /\ reads = 0

\* runs over every section and every slot; the registry entry with a field
\* beyond the default table is paired with the unset slots
Init ==
    /\ section_key \in Sections
    /\ parameters \in ParamChoices(_field_definitions(section_key))
    /\ def_qgis_fields_dict \in
         Registries(section_key, parameters = AllUnset(_field_definitions(section_key)))
    /\ input_layer \in {NoLayer} \cup Layers(LayerFieldSets, Values, Geometries, MaxFeatures)
    /\ Fresh("start")

\* runs that follow the loop: one section of each kind (slots and a default
\* table, a default table alone, computed defaults, no table, not in the
\* registry)
LoopSections == {"JUNCTIONS", "SUBCATCHMENTS", "STORAGE", "OUTLETS", "BOGUS"}

InitLoop ==
    /\ section_key \in LoopSections
    /\ def_qgis_fields_dict \in Registries(section_key, TRUE)
    /\ input_layer \in
         {NoLayer} \cup Layers(LoopFieldSets, LoopValues, LoopGeometries, MaxLoopFeatures)
    /\ parameters = AllUnset(_field_definitions(section_key))
    /\ Fresh("start")

----------------------------------------------------------------------------
(* processAlgorithm, step by step.                                          *)

\* ResolveField with the operator's choice checked against the layer's fields
ResolveFieldValidated(param_val, target_field, layer_field_names) ==
    IF param_val = "" /\ target_field \in layer_field_names
    THEN target_field
    ELSE IF param_val \in layer_field_names THEN param_val ELSE ""

\* lines 99-103: the source field a slot is bound to
ResolveField(param_val, target_field, layer_field_names) ==
    IF param_val = "" /\ target_field \in layer_field_names
    THEN target_field
    ELSE param_val

\* lines 92-103
ResolveFields ==
    /\ pc = "start"
    /\ IF ~input_layer.present
       THEN /\ error' = "Input layer is required."
            /\ pc' = "error"
            /\ UNCHANGED field_map
       ELSE /\ field_map' =
                [i \in 1..Len(field_params) |->
                    <<field_params[i][3],
                      S(ResolveField(parameters[field_params[i][1]],
                                     field_params[i][3], input_layer.names))>>]
            /\ pc' = "schema"
            /\ UNCHANGED error
    /\ UNCHANGED << section_key, def_qgis_fields_dict, field_params, input_layer,
                    parameters, target_fields, sink, defaults, total, idx, feature,
                    canceled, progress, result, fetched, cancelAt, cancelPc, reads >>

\* lines 105-116
BuildTargetFields ==
    /\ pc = "schema"
    /\ IF section_key \notin DOMAIN def_qgis_fields_dict
       THEN /\ error' = "KeyError"
            /\ pc' = "error"
            /\ UNCHANGED target_fields
       ELSE LET target_fields_def == def_qgis_fields_dict[section_key]
            IN  IF \E i \in 1..Len(target_fields_def) : target_fields_def[i][2] \notin Types
                THEN /\ error' = "KeyError"
                     /\ pc' = "error"
                     /\ UNCHANGED target_fields
                ELSE /\ target_fields' = target_fields_def
                     /\ pc' = "sink"
                     /\ UNCHANGED error
    /\ UNCHANGED << section_key, def_qgis_fields_dict, field_params, input_layer,
                    parameters, field_map, sink, defaults, total, idx, feature,
                    canceled, progress, result, fetched, cancelAt, cancelPc, reads >>

\* lines 118-131: parameterAsSink gives a sink or None
CreateSink ==
    /\ pc = "sink"
    /\ \E created \in BOOLEAN :
        IF ~created
        THEN /\ error' = "Could not create output sink."
             /\ pc' = "error"
             /\ UNCHANGED << defaults, total >>
        ELSE /\ defaults' = _defaults_for_section(section_key)
             /\ total' = Len(input_layer.features)
             /\ pc' = "fetch"
             /\ UNCHANGED error
    /\ UNCHANGED << section_key, def_qgis_fields_dict, field_params, input_layer,
                    parameters, field_map, target_fields, sink, idx, feature,
                    canceled, progress, result, fetched, cancelAt, cancelPc, reads >>

\* FetchFeature over the features in reverse order
FetchFeatureReversed ==
    /\ pc = "fetch"
    /\ IF fetched < Len(input_layer.features)
       THEN /\ feature' = input_layer.features[Len(input_layer.features) - fetched]
            /\ idx' = fetched
            /\ fetched' = fetched + 1
            /\ pc' = "write"
            /\ UNCHANGED result
       ELSE /\ result' = "OUTPUT:dest_id"
            /\ pc' = "done"
            /\ UNCHANGED << feature, idx, fetched >>
    /\ UNCHANGED << section_key, def_qgis_fields_dict, field_params, input_layer,
                    parameters, field_map, target_fields, sink, defaults, total,
                    canceled, progress, error, cancelAt, cancelPc, reads >>

\* FetchFeature with the flag read at the top of the loop
FetchFeatureChecksFirst ==
    /\ pc = "fetch"
    /\ IF fetched < Len(input_layer.features) /\ ~canceled
       THEN /\ feature' = input_layer.features[fetched + 1]
            /\ idx' = fetched
            /\ fetched' = fetched + 1
            /\ pc' = "write"
            /\ UNCHANGED result
       ELSE /\ result' = "OUTPUT:dest_id"
            /\ pc' = "done"
            /\ UNCHANGED << feature, idx, fetched >>
    /\ UNCHANGED << section_key, def_qgis_fields_dict, field_params, input_layer,
                    parameters, field_map, target_fields, sink, defaults, total,
                    canceled, progress, error, cancelAt, cancelPc, reads >>

\* line 132: the next feature of input_layer.getFeatures(), or the end of
\* the loop and line 147
FetchFeature ==
    /\ pc = "fetch"
    /\ IF fetched < Len(input_layer.features)
       THEN /\ feature' = input_layer.features[fetched + 1]
            /\ idx' = fetched
            /\ fetched' = fetched + 1
            /\ pc' = "write"
            /\ UNCHANGED result
       ELSE /\ result' = "OUTPUT:dest_id"
            /\ pc' = "done"
            /\ UNCHANGED << feature, idx, fetched >>
    /\ UNCHANGED << section_key, def_qgis_fields_dict, field_params, input_layer,
                    parameters, field_map, target_fields, sink, defaults, total,
                    canceled, progress, error, cancelAt, cancelPc, reads >>

\* _value_from_feature with only None taken as missing
ValueNoneOnly(feat, field_name, default_val) ==
    IF Truthy(field_name) /\ field_name.v \in DOMAIN feat.attributes
    THEN LET val == feat.attributes[field_name.v]
         IN  IF val # None THEN val ELSE default_val
    ELSE default_val

\* _value_from_feature with `if val:` as the test, so that 0 is missing too
ValueTruthy(feat, field_name, default_val) ==
    IF Truthy(field_name) /\ field_name.v \in DOMAIN feat.attributes
    THEN LET val == feat.attributes[field_name.v]
         IN  IF val \notin {None, S(""), N("0")} THEN val ELSE default_val
    ELSE default_val

\* lines 407-413
_value_from_feature(feat, field_name, default_val) ==
    IF Truthy(field_name) /\ field_name.v \in DOMAIN feat.attributes
    THEN LET val == feat.attributes[field_name.v]
         IN  IF val \notin {None, S("")} THEN val ELSE default_val
    ELSE default_val

\* the attribute list built over the slots instead of the registry's keys
RowAttrsBySlots(feat, fmap, dflts, target_fields_def) ==
    [i \in 1..Len(fmap) |->
        _value_from_feature(feat, fmap[i][2], DictGet(dflts, fmap[i][1]))]

\* lines 133-136: one attribute per key of the registry entry
RowAttrs(feat, fmap, dflts, target_fields_def) ==
    [i \in 1..Len(target_fields_def) |->
        _value_from_feature(feat, DictGet(fmap, target_fields_def[i][1]),
                            DictGet(dflts, target_fields_def[i][1]))]

\* lines 133-140
WriteFeature ==
    /\ pc = "write"
    /\ sink' = Append(sink,
                 [fields |-> Keys(target_fields),
                  geometry |-> feature.geometry,
                  attributes |-> RowAttrs(feature, field_map, defaults,
                                          def_qgis_fields_dict[section_key])])
    /\ pc' = "check"
    /\ UNCHANGED << section_key, def_qgis_fields_dict, field_params, input_layer,
                    parameters, field_map, target_fields, defaults, total, idx,
                    feature, canceled, progress, result, error, fetched, cancelAt,
                    cancelPc, reads >>

\* CheckCanceled that empties the sink when it sees the flag
CheckCanceledRollsBack ==
    /\ pc = "check"
    /\ reads' = reads + 1
    /\ IF canceled
       THEN /\ result' = "OUTPUT:dest_id"
            /\ sink' = << >>
            /\ pc' = "done"
            /\ UNCHANGED progress
       ELSE /\ progress' = IF total # 0 THEN ((idx + 1) * 100) \div total ELSE progress
            /\ pc' = "fetch"
            /\ UNCHANGED << result, sink >>
    /\ UNCHANGED << section_key, def_qgis_fields_dict, field_params, input_layer,
                    parameters, field_map, target_fields, defaults, total, idx,
                    feature, canceled, error, fetched, cancelAt, cancelPc >>

\* CheckCanceled that raises when it sees the flag
CheckCanceledRaises ==
    /\ pc = "check"
    /\ reads' = reads + 1
    /\ IF canceled
       THEN /\ error' = "Canceled."
            /\ pc' = "error"
            /\ UNCHANGED << progress, result >>
       ELSE /\ progress' = IF total # 0 THEN ((idx + 1) * 100) \div total ELSE progress
            /\ pc' = "fetch"
            /\ UNCHANGED << result, error >>
    /\ UNCHANGED << section_key, def_qgis_fields_dict, field_params, input_layer,
                    parameters, field_map, target_fields, sink, defaults, total, idx,
                    feature, canceled, fetched, cancelAt, cancelPc >>

\* lines 142-145
CheckCanceled ==
    /\ pc = "check"
    /\ reads' = reads + 1
    /\ IF canceled
       THEN /\ result' = "OUTPUT:dest_id"
            /\ pc' = "done"
            /\ UNCHANGED progress
       ELSE /\ progress' = IF total # 0 THEN ((idx + 1) * 100) \div total ELSE progress
            /\ pc' = "fetch"
            /\ UNCHANGED result
    /\ UNCHANGED << section_key, def_qgis_fields_dict, field_params, input_layer,
                    parameters, field_map, target_fields, sink, defaults, total, idx,
                    feature, canceled, error, fetched, cancelAt, cancelPc >>

\* the host raises the cancellation flag (QgsFeedback.cancel), at any point
\* of a run that has not ended
Cancel ==
    /\ pc \notin {"done", "error", "defaults", "computed"}
    /\ ~canceled
    /\ canceled' = TRUE
    /\ cancelAt' = Len(sink)
    /\ cancelPc' = IF pc \in {"start", "schema", "sink"} THEN "setup" ELSE pc
    /\ UNCHANGED << section_key, def_qgis_fields_dict, field_params, input_layer,
                    parameters, field_map, target_fields, sink, defaults, total, idx,
                    feature, progress, result, error, pc, fetched, reads >>

Next ==
    \/ ResolveFields
    \/ BuildTargetFields
    \/ CreateSink
    \/ FetchFeature
    \/ WriteFeature
    \/ CheckCanceled
    \/ Cancel

Spec == Init /\ [][Next]_vars

SpecLoop == InitLoop /\ [][Next]_vars

----------------------------------------------------------------------------
(* _defaults_for_section as a function of the section and the registry.     *)

FieldNames == { "Name", "Elevation", "Count" }

RECURSIVE EntriesUpTo(_)
\* the registry entries of at most n fields with distinct names
EntriesUpTo(n) ==
    IF n = 0 THEN { << >> }
    ELSE EntriesUpTo(n - 1) \cup
         { Append(e, <<f, t>>) :
             e \in { x \in EntriesUpTo(n - 1) : Len(x) = n - 1 },
             f \in FieldNames, t \in Types }

DistinctKeys(d) == \A i, j \in 1..Len(d) : d[i][1] = d[j][1] => i = j

InitDefaults ==
    /\ section_key \in Sections \ {"BOGUS"}
    /\ def_qgis_fields_dict \in
         { [s \in {section_key} |-> e] : e \in { x \in EntriesUpTo(MaxFields) : DistinctKeys(x) } }
    /\ input_layer = NoLayer
    /\ parameters = AllUnset(_field_definitions(section_key))
    /\ Fresh("defaults")

\* line 129, on its own
ComputeDefaults ==
    /\ pc = "defaults"
    /\ defaults' = _defaults_for_section(section_key)
    /\ pc' = "computed"
    /\ UNCHANGED << section_key, def_qgis_fields_dict, field_params, input_layer,
                    parameters, field_map, target_fields, sink, total, idx, feature,
                    canceled, progress, result, error, fetched, cancelAt, cancelPc,
                    reads >>

NextDefaults == ComputeDefaults

SpecDefaults == InitDefaults /\ [][NextDefaults]_vars

----------------------------------------------------------------------------
(* The row transform as section 4.5 of the specification states it, and the *)
(* properties of a run.                                                     *)

Handle == "OUTPUT:dest_id"

\* the registry entry of the run's section
Entry == def_qgis_fields_dict[section_key]

\* the Default Catalog of the run's section
Catalog == _defaults_for_section(section_key)

InputFeatures == input_layer.features

\* the selection of a target field: the name its slot is bound to; None when
\* the field has no slot, '' when the slot stayed unset
SelectionOf(name) == DictGet(field_map, name)

\* the selection `sel` gives a usable value on input feature `src`
Usable(src, sel) ==
    /\ sel # None
    /\ sel # S("")
    /\ sel.v \in DOMAIN src.attributes
    /\ src.attributes[sel.v] # None
    /\ src.attributes[sel.v] # S("")

\* the output feature section 4.5 prescribes for input feature `src`: per
\* registry field the selected source value when it is usable, else the
\* catalogue's value (None where the catalogue has no entry, as line 134
\* reads it)
ExpectedRow(src) ==
    LET entry == Entry
        catalog == Catalog
    IN  [fields |-> Keys(entry),
         geometry |-> src.geometry,
         attributes |->
            [j \in 1..Len(entry) |->
                LET sel == SelectionOf(entry[j][1])
                IN  IF Usable(src, sel)
                    THEN src.attributes[sel.v]
                    ELSE DictGet(catalog, entry[j][1])]]

\* C1: every feature in the sink has exactly one attribute per field of the
\* section's registry entry, in the registry's key order, whatever the
\* selections are.
C1_SchemaShape ==
    \A i \in 1..Len(sink) :
        /\ Len(sink[i].attributes) = Len(Entry)
        /\ sink[i].fields = Keys(Entry)
        /\ i <= Len(InputFeatures)
        /\ sink[i].attributes = ExpectedRow(InputFeatures[i]).attributes

\* a feature was written for a section whose registry entry has more fields
\* than the section has slots
C1_Witness ==
    /\ Len(sink) >= 1
    /\ Len(Entry) > Len(field_params)
    /\ Len(sink[1].attributes) = Len(Entry)

\* C2: a target field with no selection, with a selection that is not a
\* field of the feature, or with a null or empty source value gets the
\* Default Catalog's value.
C2_DefaultWhenMissing ==
    LET entry == Entry
        catalog == Catalog
    IN  \A i \in 1..Len(sink) : \A j \in 1..Len(entry) :
            LET name == entry[j][1]
                src == InputFeatures[i]
                sel == SelectionOf(name)
                at == Find(catalog, name)
            IN  ( /\ at # 0
                  /\ \/ sel = None
                     \/ sel = S("")
                     \/ sel.v \notin DOMAIN src.attributes
                     \/ src.attributes[sel.v] = None
                     \/ src.attributes[sel.v] = S("") )
                => sink[i].attributes[j] = catalog[at][2]

\* a written feature whose selected source value is the empty string, for a
\* target whose default is not the empty string
C2_Witness ==
    /\ Len(sink) >= 1
    /\ \E j \in 1..Len(Entry) :
        /\ SelectionOf(Entry[j][1]) \notin {None, S("")}
        /\ SelectionOf(Entry[j][1]).v \in DOMAIN InputFeatures[1].attributes
        /\ InputFeatures[1].attributes[SelectionOf(Entry[j][1]).v] = S("")
        /\ HasKey(Catalog, Entry[j][1])
        /\ DictGet(Catalog, Entry[j][1]) # S("")
        /\ sink[1].attributes[j] = DictGet(Catalog, Entry[j][1])

\* C3: a selection that names a field of the feature whose value is neither
\* null nor the empty string passes that value through unchanged.
C3_PassThrough ==
    LET entry == Entry
    IN  \A i \in 1..Len(sink) : \A j \in 1..Len(entry) :
            LET src == InputFeatures[i]
                sel == SelectionOf(entry[j][1])
            IN  Usable(src, sel) => sink[i].attributes[j] = src.attributes[sel.v]

\* a written feature that carries the source value 0 where the default is
\* something else
C3_Witness ==
    /\ Len(sink) >= 1
    /\ \E j \in 1..Len(Entry) :
        /\ Usable(InputFeatures[1], SelectionOf(Entry[j][1]))
        /\ InputFeatures[1].attributes[SelectionOf(Entry[j][1]).v] = N("0")
        /\ DictGet(Catalog, Entry[j][1]) # N("0")
        /\ sink[1].attributes[j] = N("0")

\* C4: every slot, required or optional, is bound to the operator's choice
\* as it is when the choice is not empty, to the target name when the choice
\* is empty and the layer has a field of exactly that name, and stays unset
\* otherwise; an unset required slot does not make the run fail.
C4_Resolution ==
    /\ (pc # "start" /\ input_layer.present) =>
        /\ Len(field_map) = Len(field_params)
        /\ \A i \in 1..Len(field_params) :
            LET choice == parameters[field_params[i][1]]
                target == field_params[i][3]
            IN  /\ field_map[i][1] = target
                /\ choice # "" => field_map[i][2] = S(choice)
                /\ (choice = "" /\ target \in input_layer.names) =>
                        field_map[i][2] = S(target)
                /\ (choice = "" /\ target \notin input_layer.names) =>
                        field_map[i][2] = S("")
    /\ pc = "error" =>
        \/ ~input_layer.present
        \/ section_key \notin DOMAIN def_qgis_fields_dict
        \/ error = "Could not create output sink."

\* a run that returned although a required slot stayed unset, with another
\* slot bound to a name the layer does not have
C4_Witness ==
    /\ pc = "done"
    /\ \E i \in 1..Len(field_params) :
        field_params[i][4] /\ field_map[i][2] = S("")
    /\ \E i \in 1..Len(field_params) :
        /\ ~field_params[i][4]
        /\ field_map[i][2] # S("")
        /\ field_map[i][2].v \notin input_layer.names

\* C5, as stated: a run in which cancellation is triggered when k features
\* (1 <= k <= n) have been written ends with exactly those k features in the
\* sink, returns the handle and raises no error.
C5_AsStated ==
    (pc \in {"done", "error"} /\ canceled /\ cancelAt >= 1) =>
        /\ Len(sink) = cancelAt
        /\ result = Handle
        /\ error = NoError

Min(a, b) == IF a <= b THEN a ELSE b

\* C5, amended: the run ends with the first k features when the flag is
\* raised between the k-th append and the read of the flag that follows it,
\* and with the first k + 1 (or all n, when k = n) when it is raised later;
\* it returns the handle and raises no error.
C5_PartialOnCancel ==
    (pc \in {"done", "error"} /\ canceled /\ cancelAt >= 1) =>
        /\ Len(sink) = IF cancelPc = "check"
                       THEN cancelAt
                       ELSE Min(cancelAt + 1, Len(InputFeatures))
        /\ \A i \in 1..Len(sink) : sink[i] = ExpectedRow(InputFeatures[i])
        /\ result = Handle
        /\ error = NoError

\* a cancelled run that ended with k features, k below the input's size
C5_Witness ==
    /\ pc = "done"
    /\ canceled
    /\ cancelPc = "check"
    /\ cancelAt >= 2
    /\ Len(sink) = cancelAt
    /\ Len(sink) < Len(InputFeatures)

\* C6: a run that ends in an error has an empty sink and one of the three
\* fatal errors; a run that has written a feature ends by returning the
\* handle, on the end of the input or on an observed cancellation.
C6_ErrorsBeforeWrites ==
    /\ pc = "error" =>
        /\ Len(sink) = 0
        /\ result = NoResult
        /\ error \in {"Input layer is required.", "KeyError",
                      "Could not create output sink."}
    /\ (pc \in {"done", "error"} /\ Len(sink) >= 1) =>
        /\ pc = "done"
        /\ result = Handle
        /\ error = NoError
        /\ canceled \/ fetched = Len(InputFeatures)

\* a run that failed on the sink, and so after field resolution
C6_Witness ==
    /\ pc = "error"
    /\ error = "Could not create output sink."
    /\ Len(sink) = 0

\* C7: a run of a section whose Default Catalog lacks an entry for a field
\* of the registry entry never processes a feature and never returns.
C7_MissingDefaultIsFatal ==
    ( /\ section_key \in DOMAIN def_qgis_fields_dict
      /\ \E j \in 1..Len(Entry) : ~HasKey(Catalog, Entry[j][1]) )
    => /\ Len(sink) = 0
       /\ pc \notin {"write", "check", "done"}

\* C8, as stated: for a section without a literal default table, every
\* field of type Double or Int defaults to 0 and every other field to ''.
C8_AsStated ==
    (pc = "computed" /\ section_key \notin DOMAIN LiteralTables) =>
        /\ Len(defaults) = Len(Entry)
        /\ \A i \in 1..Len(Entry) :
            defaults[i] = <<Entry[i][1],
                            IF Entry[i][2] \in {"Double", "Int"} THEN N("0") ELSE S("")>>

\* C8, amended: for STORAGE every field of type Double defaults to 0 and
\* every field of another type, Int included, to ''; for any other section
\* without a literal default table every field defaults to null.
C8_ComputedDefaults ==
    (pc = "computed" /\ section_key \notin DOMAIN LiteralTables) =>
        /\ Len(defaults) = Len(Entry)
        /\ \A i \in 1..Len(Entry) :
            defaults[i] = <<Entry[i][1],
                            IF section_key = "STORAGE"
                            THEN IF Entry[i][2] = "Double" THEN N("0") ELSE S("")
                            ELSE None>>

\* the defaults of a STORAGE registry entry with a Double and an Int field
C8_Witness ==
    /\ pc = "computed"
    /\ section_key = "STORAGE"
    /\ \E i, j \in 1..Len(Entry) :
        /\ Entry[i][2] = "Int" /\ defaults[i][2] = S("")
        /\ Entry[j][2] = "Double" /\ defaults[j][2] = N("0")

\* C9: the sink is at every point the transform of a prefix of the input,
\* in the input's order, and a feature is read only when every feature read
\* before it has been appended.
C9_InOrder ==
    /\ input_layer.present =>
        /\ Len(sink) <= Len(InputFeatures)
        /\ \A i \in 1..Len(sink) : sink[i] = ExpectedRow(InputFeatures[i])
    /\ fetched <= Len(sink) + 1
    /\ pc = "write" => (fetched = Len(sink) + 1 /\ feature = InputFeatures[fetched])
    /\ pc \in {"check", "fetch", "done"} => fetched = Len(sink)

\* two different features written, a third one read
C9_Witness ==
    /\ pc = "write"
    /\ Len(sink) = 2
    /\ fetched = 3
    /\ sink[1] # sink[2]
    /\ sink[1].attributes # sink[2].attributes

\* C10: the flag is read only after an append; a run over a non-empty input
\* with the flag raised before the first feature is read ends with one
\* feature in the sink, and a feature that is being processed when the flag
\* is raised is written and is the last one written.
C10_CheckAfterWrite ==
    /\ reads <= Len(sink)
    /\ (pc = "done" /\ canceled /\ cancelAt = 0 /\ Len(InputFeatures) >= 1) =>
        Len(sink) = 1
    /\ (pc = "done" /\ canceled /\ cancelPc = "write") => Len(sink) = cancelAt + 1
    /\ (pc = "done" /\ canceled /\ cancelPc = "check") => Len(sink) = cancelAt

\* a run cancelled before its first step, over three features, that ended
\* with one feature
C10_Witness ==
    /\ pc = "done"
    /\ cancelPc = "setup"
    /\ Len(InputFeatures) = 3
    /\ Len(sink) = 1
    /\ reads = 1

=============================================================================
